---- MODULE Spec2Model ----
(***************************************************************************)
(* Model of tools/conf_migration_tool/conf_migrate.py: the INI fragment    *)
(* parser, the section span indexer, the migration rule engine, the        *)
(* fragment rewriter, the version gate and the migrate_file write          *)
(* sequence.                                                               *)
(*                                                                         *)
(* A text is a sequence of tokens.  A token is one character of the        *)
(* classes the grammar distinguishes ("\n", " ", "\r", "#", "[", "]",      *)
(* "=") or a word of ordinary characters, which every character class of   *)
(* rgx_ini_parser treats like one ordinary character.                      *)
(***************************************************************************)
EXTENDS Integers, Sequences, FiniteSets, TLC

VARIABLES
    content,            \* parse_configuration: the text being parsed
    pos,                \* finditer: index (1-based) of the next token to scan
    parsed,             \* fragments produced by finditer so far
    fragments,          \* migrate / migrate_file: the current fragment sequence
    migration_def,      \* migrate: the migration description applied
    pc,                 \* position of the running function
    actions,            \* migrate: the five action lists
    section_spans,      \* migrate: name -> list of spans
    registrations,      \* migrate: the assignments made to reinject_fragments, in order
    added_keys,         \* migrate: insertion-ordered dict section -> fragments
    result,             \* migrate: the returned pair
    version,            \* migrate_file: the recorded previous version
    catalog,            \* migrate_file: migration_defs, in catalog order
    todo,               \* migrate_file: entries the loop still has to apply
    applied,            \* migrate_file: one entry per loop iteration done
    is_changed,         \* migrate_file: the flag returned
    live,               \* file ini_filename
    tmp,                \* file temporary_ini_filename
    saved               \* file saved_ini_filename

vars == <<content, pos, parsed, fragments, migration_def, pc, actions,
          section_spans, registrations, added_keys, result, version, catalog,
          todo, applied, is_changed, live, tmp, saved>>

parseVars == <<content, pos, parsed>>
migrateVars == <<migration_def, actions, section_spans, registrations,
                 added_keys, result>>
fileVars == <<version, catalog, todo, applied, is_changed, live, tmp, saved>>

----------------------------------------------------------------------------
(* Bounds *)

MaxLen == 5

MaxFrags == 5

----------------------------------------------------------------------------
(* Generic helpers *)

Min(S) == CHOOSE x \in S : \A y \in S : x <= y

Max(S) == CHOOSE x \in S : \A y \in S : x >= y

SeqsUpTo(S, n) == UNION {[1..k -> S] : k \in 0..n}

RECURSIVE Join(_)
Join(ss) == IF ss = <<>> THEN <<>> ELSE Head(ss) \o Join(Tail(ss))

\* Optional[...] values: None is the empty tuple, a present value x is <<x>>.
None == <<>>

Some(x) == <<x>>

----------------------------------------------------------------------------
(* ConfigKind, ConfigurationFragment *)

ConfigKind == {"Unknown", "NewLine", "Comment", "Section", "KeyValue"}

novalue == <<>>

ConfigurationFragment(text, kind, value1, value2) ==
    [text |-> text, kind |-> kind, value1 |-> value1, value2 |-> value2]

newline_fragment == ConfigurationFragment(<<"\n">>, "NewLine", novalue, novalue)

\* ''.join(fragment.text for fragment in fragments)
JoinText(frags) == Join([i \in 1..Len(frags) |-> frags[i].text])

----------------------------------------------------------------------------
(* rgx_ini_parser: character classes and the five alternatives.            *)
(* A match is [end |-> index after the match, 0 when the alternative does  *)
(* not match, g3, g4, g5 |-> the captured groups].                         *)

Alphabet == {"\n", " ", "\r", "#", "[", "]", "=", "a"}

IsBlank(c) == c \in {" ", "\t"}

IsSpace(c) == c \in {" ", "\t", "\n", "\r", "\f"}

NoMatch == [end |-> 0, g3 |-> novalue, g4 |-> novalue, g5 |-> novalue]

\* [ \t]* taken greedily from p: the index of the first token that is not blank
SkipBlank(s, p) ==
    LET stop == {q \in p..Len(s) : ~IsBlank(s[q])}
    IN  IF stop = {} THEN Len(s) + 1 ELSE Min(stop)

\* [^\n]* taken greedily from p: the index of the next "\n", or the end
LineEnd(s, p) ==
    LET stop == {q \in p..Len(s) : s[q] = "\n"}
    IN  IF stop = {} THEN Len(s) + 1 ELSE Min(stop)

\* [^\s]+ taken greedily from p: the index of the next whitespace, or the end
RunEnd(s, p) ==
    LET stop == {q \in p..Len(s) : IsSpace(s[q])}
    IN  IF stop = {} THEN Len(s) + 1 ELSE Min(stop)

\* (\n)
MatchNewLine(s, p) ==
    IF s[p] = "\n" THEN [NoMatch EXCEPT !.end = p + 1] ELSE NoMatch

\* [ \t]*(#)[^\n]*
MatchComment(s, p) ==
    LET q == SkipBlank(s, p)
    IN  IF q <= Len(s) /\ s[q] = "#"
        THEN [NoMatch EXCEPT !.end = LineEnd(s, q)]
        ELSE NoMatch

\* [ \t]*\[[ \t]*(.+?)[ \t]*\][ \t]*
\* The name starts at st (the blanks before it are given back one by one) and
\* ends before e (lazy: the shortest name first); the first pair in that
\* order which is followed by blanks and "]" is the match.
MatchSection(s, p) ==
    LET q == SkipBlank(s, p)
        ways == IF q <= Len(s) /\ s[q] = "["
                THEN {w \in ((q + 1)..SkipBlank(s, q + 1)) \X ((q + 2)..(Len(s) + 1)) :
                        /\ w[1] < w[2]
                        /\ w[2] <= LineEnd(s, w[1])
                        /\ SkipBlank(s, w[2]) <= Len(s)
                        /\ s[SkipBlank(s, w[2])] = "]"}
                ELSE {}
    IN  IF ways = {} THEN NoMatch
        ELSE LET st == Max({w[1] : w \in ways})
                 e  == Min({w[2] : w \in {v \in ways : v[1] = st}})
             IN  [NoMatch EXCEPT !.end = SkipBlank(s, SkipBlank(s, e) + 1),
                                 !.g3 = SubSeq(s, st, e - 1)]

\* [ \t]*([^\s]+)[ \t]*=[ \t]*(.*?)[ \t]*(?=\n|$)
\* The key is the longest prefix of the run of non-whitespace that blanks and
\* "=" follow; the value starts after the blanks (greedy) and is the shortest
\* text that blanks and the end of the line follow.
MatchKeyValue(s, p) ==
    LET q == SkipBlank(s, p)
        keyEnds == {ke \in (q + 1)..RunEnd(s, q) :
                      /\ SkipBlank(s, ke) <= Len(s)
                      /\ s[SkipBlank(s, ke)] = "="}
    IN  IF keyEnds = {} THEN NoMatch
        ELSE LET ke == Max(keyEnds)
                 eq == SkipBlank(s, ke)
                 vways == {w \in ((eq + 1)..SkipBlank(s, eq + 1)) \X ((eq + 1)..(Len(s) + 1)) :
                             /\ w[1] <= w[2]
                             /\ w[2] <= LineEnd(s, w[1])
                             /\ SkipBlank(s, w[2]) = LineEnd(s, w[2])}
                 vs == Max({w[1] : w \in vways})
                 ve == Min({w[2] : w \in {v \in vways : v[1] = vs}})
             IN  [NoMatch EXCEPT !.end = SkipBlank(s, ve),
                                 !.g4 = SubSeq(s, q, ke - 1),
                                 !.g5 = SubSeq(s, vs, ve - 1)]

\* as MatchAnyLine for the pattern [^\s]+ : the last alternative stops at whitespace
MatchAnyRun(s, p) ==
    IF ~IsSpace(s[p]) THEN [NoMatch EXCEPT !.end = RunEnd(s, p)] ELSE NoMatch

\* [^\n]+
MatchAnyLine(s, p) ==
    IF s[p] # "\n" THEN [NoMatch EXCEPT !.end = LineEnd(s, p)] ELSE NoMatch

\* The fragment _to_fragment builds from the first alternative that matches at
\* p, with the index the scan continues from; when nothing matches at p the
\* scan moves one token on and no fragment is produced.
MatchAt(s, p) ==
    LET m1 == MatchNewLine(s, p)
        m2 == MatchComment(s, p)
        m3 == MatchSection(s, p)
        m4 == MatchKeyValue(s, p)
        m5 == MatchAnyLine(s, p)
        frag(m, kind, v1, v2) ==
            [next |-> m.end,
             found |-> <<ConfigurationFragment(SubSeq(s, p, m.end - 1), kind, v1, v2)>>]
    IN  IF m1.end # 0 THEN [next |-> m1.end, found |-> <<newline_fragment>>]
        ELSE IF m2.end # 0 THEN frag(m2, "Comment", novalue, novalue)
        ELSE IF m3.end # 0 THEN frag(m3, "Section", m3.g3, novalue)
        ELSE IF m4.end # 0 THEN frag(m4, "KeyValue", m4.g4, m4.g5)
        ELSE IF m5.end # 0 THEN frag(m5, "Unknown", novalue, novalue)
        ELSE [next |-> p + 1, found |-> <<>>]

RECURSIVE ParseFrom(_, _)
ParseFrom(s, p) ==
    IF p > Len(s) THEN <<>>
    ELSE LET m == MatchAt(s, p) IN m.found \o ParseFrom(s, m.next)

parse_configuration(s) == ParseFrom(s, 1)

----------------------------------------------------------------------------
(* Migration descriptions: UpdateItem, RemoveItem, MoveSection, and the     *)
(* dict and list forms of a section order.  A dict is a function.           *)

RemoveItem == [type |-> "RemoveItem"]

MoveSection(name) == [type |-> "MoveSection", name |-> name]

KeyRules(d) == [type |-> "dict", keys |-> d]

Steps(seq) == [type |-> "list", steps |-> seq]

UpdateItem(section, key, values) ==
    [type |-> "UpdateItem", section |-> section, key |-> key, values |-> values]

EmptyDict == [x \in {} |-> x]

\* dict.get(k): None when k is no key of d
Get(d, k) == IF k \in DOMAIN d THEN Some(d[k]) ELSE None

\* UpdateItem.__call__
UpdateItemCall(item, section, key, value) ==
    LET s == IF item.section # None THEN item.section[1] ELSE section
        k == IF item.key # None THEN item.key[1] ELSE key
        v == IF item.values # None
             THEN (IF value \in DOMAIN item.values[1] THEN item.values[1][value] ELSE value)
             ELSE value
    IN  <<s, k, v>>

----------------------------------------------------------------------------
(* migration_def_to_actions *)

NoActions ==
    [renamed_sections |-> <<>>, renamed_keys |-> <<>>, moved_keys |-> <<>>,
     removed_sections |-> <<>>, removed_keys |-> <<>>]

ScanStart ==
    [section |-> novalue, original_section |-> novalue, migration_key_desc |-> None,
     acts |-> NoActions]

\* the body of "for order in order" (one step of a list), lines 230-235
RECURSIVE ApplySteps(_, _)
ApplySteps(st, steps) ==
    IF steps = <<>> THEN st
    ELSE LET order == Head(steps)
             st2 == IF order.type = "MoveSection"
                    THEN [st EXCEPT
                            !.acts.renamed_sections = Append(@, <<st.section, order.name>>),
                            !.section = order.name]
                    ELSE [st EXCEPT !.migration_key_desc = Some(order)]
         IN  ApplySteps(st2, Tail(steps))

\* the KeyValue branch of the loop body, lines 201-213
ScanKeyValue(st, fragment) ==
    IF st.migration_key_desc = None \/ DOMAIN st.migration_key_desc[1].keys = {}
    THEN st
    ELSE LET got == Get(st.migration_key_desc[1].keys, fragment.value1)
         IN  IF got = None THEN st
             ELSE IF got[1].type = "RemoveItem"
             THEN [st EXCEPT !.acts.removed_keys =
                                Append(@, <<st.section, fragment.value1>>)]
             ELSE IF got[1].type = "UpdateItem"
             THEN LET t == UpdateItemCall(got[1], st.section, fragment.value1,
                                          fragment.value2)
                  IN  IF t[1] = st.section
                      THEN [st EXCEPT !.acts.renamed_keys =
                              Append(@, <<st.original_section, fragment.value1, t[2], t[3]>>)]
                      ELSE [st EXCEPT !.acts.moved_keys =
                              Append(@, <<st.original_section, fragment.value1,
                                          t[1], t[2], t[3]>>)]
             ELSE st

\* the Section branch of the loop body, lines 215-235
ScanSection(st, fragment, def) ==
    LET section == fragment.value1
        st1 == [st EXCEPT !.migration_key_desc = None,
                          !.section = section,
                          !.original_section = section]
        got == Get(def, section)
    IN  IF got = None THEN st1
        ELSE IF got[1].type = "RemoveItem"
        THEN [st1 EXCEPT !.acts.removed_sections = Append(@, section)]
        ELSE IF got[1].type = "MoveSection"
        THEN [st1 EXCEPT !.acts.renamed_sections = Append(@, <<section, got[1].name>>)]
        ELSE IF got[1].type = "dict"
        THEN [st1 EXCEPT !.migration_key_desc = Some(got[1])]
        ELSE ApplySteps(st1, got[1].steps)

RECURSIVE ScanFragments(_, _, _)
ScanFragments(st, frags, def) ==
    IF frags = <<>> THEN st
    ELSE LET fragment == Head(frags)
             st2 == IF fragment.kind = "KeyValue" THEN ScanKeyValue(st, fragment)
                    ELSE IF fragment.kind = "Section" THEN ScanSection(st, fragment, def)
                    ELSE st
         IN  ScanFragments(st2, Tail(frags), def)

migration_def_to_actions(frags, def) == ScanFragments(ScanStart, frags, def).acts

----------------------------------------------------------------------------
(* fragments_to_spans_of_sections.  Indices are the code's, from 0:         *)
(* fragments[i] of the code is frags[i + 1] here.                           *)

\* section_spans.setdefault(section, []).append(span)
AppendSpan(spans, section, span) ==
    IF section \in DOMAIN spans
    THEN [spans EXCEPT ![section] = Append(@, span)]
    ELSE [k \in DOMAIN spans \cup {section} |->
            IF k = section THEN <<span>> ELSE spans[k]]

RECURSIVE SpanScan(_, _, _)
SpanScan(st, frags, i) ==
    IF i >= Len(frags) THEN st
    ELSE LET fragment == frags[i + 1]
             st2 == IF fragment.kind = "Section"
                    THEN [start |-> i,
                          section |-> fragment.value1,
                          spans |-> IF st.start < i - 1
                                    THEN AppendSpan(st.spans, st.section, <<st.start, i - 1>>)
                                    ELSE st.spans]
                    ELSE st
         IN  SpanScan(st2, frags, i + 1)

fragments_to_spans_of_sections(frags) ==
    LET st == SpanScan([start |-> 0, section |-> novalue, spans |-> EmptyDict], frags, 0)
        i  == IF frags = <<>> THEN 0 ELSE Len(frags) - 1
    IN  IF st.start < i - 1
        THEN AppendSpan(st.spans, st.section, <<st.start, i - 1>>)
        ELSE st.spans

\* range(a, b) as a sequence
Range(a, b) == [n \in 1..(IF b > a THEN b - a ELSE 0) |-> a + n - 1]

\* (i for span in spans for i in range(span[0], span[1]))
iter_from_spans(spans) ==
    Join([k \in 1..Len(spans) |-> Range(spans[k][1], spans[k][2])])

\* section_spans.get(section_name, ())
SpansOf(spans, section_name) ==
    IF section_name \in DOMAIN spans THEN spans[section_name] ELSE <<>>

\* the indices iter_key_fragment yields, in order
iter_key_fragment(frags, spans, section_name, key_name) ==
    SelectSeq(iter_from_spans(SpansOf(spans, section_name)),
              LAMBDA i : frags[i + 1].kind = "KeyValue" /\ frags[i + 1].value1 = key_name)

----------------------------------------------------------------------------
(* migrate: the registrations in reinject_fragments, lines 282-313.         *)
(* A registration is [index |-> i, fragments |-> the replacement]; the      *)
(* dict reinject_fragments holds, for each index, the last one registered.  *)

CommentOut(fragment) ==
    ConfigurationFragment(<<"#">> \o fragment.text, "Comment", novalue, novalue)

NewKeyValue(key, value) ==
    ConfigurationFragment(key \o <<"=">> \o value, "KeyValue", key, value)

NewSection(name) ==
    ConfigurationFragment(<<"[">> \o name \o <<"]">>, "Section", name, novalue)

\* for section, old_key, new_key, new_value in renamed_keys, lines 282-289
RenamedKeyRegistrations(frags, spans, renamed_keys) ==
    Join([k \in 1..Len(renamed_keys) |->
            LET t == renamed_keys[k]
                idx == iter_key_fragment(frags, spans, t[1], t[2])
            IN  [n \in 1..Len(idx) |->
                   [index |-> idx[n],
                    fragments |-> <<CommentOut(frags[idx[n] + 1]),
                                    newline_fragment,
                                    NewKeyValue(t[3], t[4])>>]]])

\* as RemovedSectionRegistrations, without the test of the fragment's kind
RemovedSectionRegistrationsAnyKind(frags, spans, removed_sections) ==
    Join([k \in 1..Len(removed_sections) |->
            LET idx == iter_from_spans(SpansOf(spans, removed_sections[k]))
            IN  [n \in 1..Len(idx) |->
                   [index |-> idx[n],
                    fragments |-> <<CommentOut(frags[idx[n] + 1])>>]]])

\* for section in removed_sections, lines 291-298
RemovedSectionRegistrations(frags, spans, removed_sections) ==
    Join([k \in 1..Len(removed_sections) |->
            LET idx == SelectSeq(iter_from_spans(SpansOf(spans, removed_sections[k])),
                                 LAMBDA i : frags[i + 1].kind \in {"KeyValue", "Section"})
            IN  [n \in 1..Len(idx) |->
                   [index |-> idx[n],
                    fragments |-> <<CommentOut(frags[idx[n] + 1])>>]]])

\* for t in itertools.chain(removed_keys, moved_keys), lines 300-303
RemovedKeyRegistrations(frags, spans, removed_keys, moved_keys) ==
    LET chain == [k \in 1..Len(removed_keys) |-> <<removed_keys[k][1], removed_keys[k][2]>>]
                 \o [k \in 1..Len(moved_keys) |-> <<moved_keys[k][1], moved_keys[k][2]>>]
    IN  Join([k \in 1..Len(chain) |->
                LET idx == iter_key_fragment(frags, spans, chain[k][1], chain[k][2])
                IN  [n \in 1..Len(idx) |->
                       [index |-> idx[n],
                        fragments |-> <<CommentOut(frags[idx[n] + 1])>>]]])

\* for old_section, new_section in renamed_sections, lines 305-313
RenamedSectionRegistrations(frags, spans, renamed_sections) ==
    Join([k \in 1..Len(renamed_sections) |->
            LET sp == SpansOf(spans, renamed_sections[k][1])
            IN  [n \in 1..Len(sp) |->
                   [index |-> sp[n][1],
                    fragments |-> <<CommentOut(frags[sp[n][1] + 1]),
                                    newline_fragment,
                                    NewSection(renamed_sections[k][2])>>]]])

\* reinject_fragments after the assignments regs
Reinject(regs) ==
    [i \in {regs[n].index : n \in 1..Len(regs)} |->
        regs[Max({n \in 1..Len(regs) : regs[n].index = i})].fragments]

----------------------------------------------------------------------------
(* migrate: added_keys, lines 315-324.  The dict keeps insertion order: it  *)
(* is a sequence of [section, keys] entries with distinct sections.         *)

\* added_keys.setdefault(section, []).extend(frags)
ExtendAdded(added, section, frags) ==
    IF \E n \in 1..Len(added) : added[n].section = section
    THEN [n \in 1..Len(added) |->
            IF added[n].section = section
            THEN [added[n] EXCEPT !.keys = @ \o frags]
            ELSE added[n]]
    ELSE Append(added, [section |-> section, keys |-> frags])

RECURSIVE ExtendAll(_, _)
ExtendAll(added, entries) ==
    IF entries = <<>> THEN added
    ELSE ExtendAll(ExtendAdded(added, Head(entries).section, Head(entries).keys),
                   Tail(entries))

AddedKeys(frags, spans, moved_keys) ==
    ExtendAll(<<>>,
        Join([k \in 1..Len(moved_keys) |->
                LET t == moved_keys[k]
                    idx == iter_key_fragment(frags, spans, t[1], t[2])
                IN  [n \in 1..Len(idx) |->
                       [section |-> t[3],
                        keys |-> <<newline_fragment,
                                   NewKeyValue(t[4], t[5]),
                                   newline_fragment>>]]]))

\* added_keys.get(section), as the list of fragments (empty when absent)
AddedFor(added, section) ==
    Join([n \in 1..Len(added) |->
            IF added[n].section = section THEN added[n].keys ELSE <<>>])

\* added_keys[section] = []
ClearAdded(added, section) ==
    [n \in 1..Len(added) |->
        IF added[n].section = section THEN [added[n] EXCEPT !.keys = <<>>] ELSE added[n]]

----------------------------------------------------------------------------
(* migrate: the forward pass and the appended sections, lines 326-354 *)

\* "for x in added_fragments: if x.kind == Section: section = x.value1; break"
FirstSection(added_fragments) ==
    LET at == {n \in 1..Len(added_fragments) : added_fragments[n].kind = "Section"}
    IN  IF at = {} THEN None ELSE Some(added_fragments[Min(at)].value1)

RECURSIVE ForwardPass(_, _, _, _)
ForwardPass(st, frags, reinject, i) ==
    IF i >= Len(frags) THEN st
    ELSE LET added_fragments == IF i \in DOMAIN reinject THEN reinject[i]
                                ELSE <<frags[i + 1]>>
             section == FirstSection(added_fragments)
             key == IF section # None /\ section[1] # novalue
                    THEN AddedFor(st.added, section[1]) ELSE <<>>
             st2 == [out |-> st.out \o added_fragments \o key,
                     added |-> IF key # <<>> THEN ClearAdded(st.added, section[1])
                               ELSE st.added]
         IN  ForwardPass(st2, frags, reinject, i + 1)

\* "for section, keys in added_keys.items(): if keys: ..."
NewSections(added) ==
    Join([n \in 1..Len(added) |->
            IF added[n].keys # <<>>
            THEN <<newline_fragment, NewSection(added[n].section)>> \o added[n].keys
            ELSE <<>>])

Rebuild(frags, reinject, added) ==
    LET st == ForwardPass([out |-> <<>>, added |-> added], frags, reinject, 0)
    IN  st.out \o NewSections(st.added)

----------------------------------------------------------------------------
(* migrate *)

\* as NoAction, with removed_keys left out of the test
NoActionButRemovedKeys(acts) ==
    /\ acts.renamed_sections = <<>>
    /\ acts.renamed_keys = <<>>
    /\ acts.moved_keys = <<>>
    /\ acts.removed_sections = <<>>

\* not (renamed_sections or renamed_keys or moved_keys or removed_sections or removed_keys)
NoAction(acts) ==
    /\ acts.renamed_sections = <<>>
    /\ acts.renamed_keys = <<>>
    /\ acts.moved_keys = <<>>
    /\ acts.removed_sections = <<>>
    /\ acts.removed_keys = <<>>

AllRegistrations(frags, spans, acts) ==
    RenamedKeyRegistrations(frags, spans, acts.renamed_keys)
    \o RemovedSectionRegistrations(frags, spans, acts.removed_sections)
    \o RemovedKeyRegistrations(frags, spans, acts.removed_keys, acts.moved_keys)
    \o RenamedSectionRegistrations(frags, spans, acts.renamed_sections)

migrate(frags, def) ==
    LET acts == migration_def_to_actions(frags, def)
    IN  IF NoAction(acts) THEN [changed |-> FALSE, fragments |-> frags]
        ELSE LET spans == fragments_to_spans_of_sections(frags)
             IN  [changed |-> TRUE,
                  fragments |-> Rebuild(frags,
                                        Reinject(AllRegistrations(frags, spans, acts)),
                                        AddedKeys(frags, spans, acts.moved_keys))]

----------------------------------------------------------------------------
(* The inputs of migrate explored: fragment sequences as the parser         *)
(* produces them (a key-value line, a comment and an unknown line reach the *)
(* end of their line, so a newline or the end of the file follows) and a    *)
(* family of migration descriptions over sections a, b, c and keys k, j.    *)

T(word) == <<word>>

FragmentPool ==
    {NewSection(T("a")), NewSection(T("b")),
     NewKeyValue(T("k"), T("1")), NewKeyValue(T("k"), T("2")),
     newline_fragment,
     ConfigurationFragment(<<"#", "x">>, "Comment", novalue, novalue),
     ConfigurationFragment(T("u"), "Unknown", novalue, novalue)}

WellFormed(frags) ==
    \A n \in 1..(Len(frags) - 1) :
        frags[n].kind \in {"KeyValue", "Comment", "Unknown"}
            => frags[n + 1].kind = "NewLine"

FragmentSeqs == {frags \in SeqsUpTo(FragmentPool, MaxFrags) : WellFormed(frags)}

Rule(key, item) == key :> item

RenameKeyDescs ==
    {T("a") :> KeyRules(Rule(T("k"), UpdateItem(None, Some(T("j")), None))),
     T("a") :> KeyRules(Rule(T("k"), UpdateItem(Some(T("a")), Some(T("j")), None)))}

MoveKeyDescs ==
    {T("a") :> KeyRules(Rule(T("k"), UpdateItem(Some(T("b")), None, None))),
     T("a") :> KeyRules(Rule(T("k"), UpdateItem(Some(T("c")), Some(T("j")), None))),
     (T("a") :> KeyRules(Rule(T("k"), UpdateItem(Some(T("b")), None, None))))
        @@ (T("b") :> RemoveItem)}

StepsDescs ==
    {T("a") :> Steps(<<MoveSection(T("c")), KeyRules(Rule(T("k"), RemoveItem))>>),
     T("a") :> Steps(<<MoveSection(T("c")),
                       KeyRules(Rule(T("k"), UpdateItem(None, Some(T("j")), None)))>>),
     T("a") :> Steps(<<MoveSection(T("c")),
                       KeyRules(Rule(T("k"), UpdateItem(Some(T("b")), None, None)))>>)}

MigrationDescs ==
    RenameKeyDescs \cup MoveKeyDescs \cup StepsDescs \cup
    {EmptyDict,
     T("a") :> RemoveItem,
     T("a") :> MoveSection(T("c")),
     T("a") :> KeyRules(Rule(T("k"), RemoveItem)),
     T("a") :> KeyRules(Rule(T("k"),
                   UpdateItem(None, Some(T("j")), Some(T("1") :> T("2"))))),
     T("c") :> RemoveItem,
     T("a") :> KeyRules(Rule(T("j"), RemoveItem))}

----------------------------------------------------------------------------
(* Specification Spec: one call of migrate, block by block *)

NoResult == [changed |-> FALSE, fragments |-> <<>>]

Init ==
    /\ fragments \in FragmentSeqs
    /\ migration_def \in MigrationDescs
    /\ pc = "migrate"
    /\ actions = NoActions
    /\ section_spans = EmptyDict
    /\ registrations = <<>>
    /\ added_keys = <<>>
    /\ result = NoResult
    /\ content = <<>> /\ pos = 1 /\ parsed = <<>>
    /\ version = <<>> /\ catalog = <<>> /\ todo = <<>> /\ applied = <<>>
    /\ is_changed = FALSE /\ live = None /\ tmp = None /\ saved = None

\* lines 260-267
Resolve ==
    /\ pc = "migrate"
    /\ actions' = migration_def_to_actions(fragments, migration_def)
    /\ IF NoAction(actions')
       THEN /\ result' = [changed |-> FALSE, fragments |-> fragments]
            /\ pc' = "returned"
            /\ UNCHANGED section_spans
       ELSE /\ section_spans' = fragments_to_spans_of_sections(fragments)
            /\ pc' = "renamed_keys"
            /\ UNCHANGED result
    /\ UNCHANGED <<fragments, migration_def, registrations, added_keys>>
    /\ UNCHANGED <<parseVars, fileVars>>

Register(at, regs, next) ==
    /\ pc = at
    /\ registrations' = registrations \o regs
    /\ pc' = next
    /\ UNCHANGED <<fragments, migration_def, actions, section_spans, added_keys, result>>
    /\ UNCHANGED <<parseVars, fileVars>>

\* lines 282-289
RegisterRenamedKeys ==
    Register("renamed_keys",
             RenamedKeyRegistrations(fragments, section_spans, actions.renamed_keys),
             "removed_sections")

\* lines 291-298
RegisterRemovedSections ==
    Register("removed_sections",
             RemovedSectionRegistrations(fragments, section_spans,
                                         actions.removed_sections),
             "removed_keys")

\* lines 300-303
RegisterRemovedKeys ==
    Register("removed_keys",
             RemovedKeyRegistrations(fragments, section_spans,
                                     actions.removed_keys, actions.moved_keys),
             "renamed_sections")

\* lines 305-313
RegisterRenamedSections ==
    Register("renamed_sections",
             RenamedSectionRegistrations(fragments, section_spans,
                                         actions.renamed_sections),
             "added_keys")

\* lines 315-324
CollectAddedKeys ==
    /\ pc = "added_keys"
    /\ added_keys' = AddedKeys(fragments, section_spans, actions.moved_keys)
    /\ pc' = "rebuild"
    /\ UNCHANGED <<fragments, migration_def, actions, section_spans, registrations, result>>
    /\ UNCHANGED <<parseVars, fileVars>>

\* lines 326-354
RebuildResult ==
    /\ pc = "rebuild"
    /\ result' = [changed |-> TRUE,
                  fragments |-> Rebuild(fragments, Reinject(registrations), added_keys)]
    /\ pc' = "returned"
    /\ UNCHANGED <<fragments, migration_def, actions, section_spans, registrations,
                   added_keys>>
    /\ UNCHANGED <<parseVars, fileVars>>

Next ==
    \/ Resolve
    \/ RegisterRenamedKeys
    \/ RegisterRemovedSections
    \/ RegisterRemovedKeys
    \/ RegisterRenamedSections
    \/ CollectAddedKeys
    \/ RebuildResult

Spec == Init /\ [][Next]_vars

----------------------------------------------------------------------------
(* Properties of one call of migrate (specification Spec) *)

\* positions (from 1) of the fragments of the given kind
Positions(frags, kind) == {n \in 1..Len(frags) : frags[n].kind = kind}

\* the name in the last Section fragment at or before position n, '' if none
SectionAt(frags, n) ==
    LET heads == {h \in Positions(frags, "Section") : h <= n}
    IN  IF heads = {} THEN novalue ELSE frags[Max(heads)].value1

\* positions of the KeyValue fragments with this key under a header of this name
KeysUnder(frags, section, key) ==
    {n \in Positions(frags, "KeyValue") :
        frags[n].value1 = key /\ SectionAt(frags, n) = section}

\* index (from 0) of the first Section fragment after index start, else the length
NextHeader(frags, start) ==
    LET later == {h \in Positions(frags, "Section") : h - 1 > start}
    IN  IF later = {} THEN Len(frags) ELSE Min(later) - 1

\* index (from 0) at which the section holding index i starts
OccurrenceStart(frags, i) ==
    LET heads == {h \in Positions(frags, "Section") : h - 1 <= i}
    IN  IF heads = {} THEN 0 ELSE Max(heads) - 1

SpansComputed ==
    pc \in {"renamed_keys", "removed_sections", "removed_keys", "renamed_sections",
            "added_keys", "rebuild"}

\* C8: every recorded span, read as [start, end), starts at its section's
\* header (0 for the implicit section '') and ends at the index of the next
\* Section fragment or at the length of the sequence; so every fragment of a
\* section with a non-empty body lies inside one of that section's spans.
C8_SpansReachNextHeader ==
    SpansComputed =>
        /\ \A name \in DOMAIN section_spans :
             \A k \in 1..Len(section_spans[name]) :
                LET sp == section_spans[name][k]
                IN  /\ IF name = novalue THEN sp[1] = 0
                       ELSE /\ fragments[sp[1] + 1].kind = "Section"
                            /\ fragments[sp[1] + 1].value1 = name
                    /\ sp[2] = NextHeader(fragments, sp[1])
        /\ \A i \in 0..(Len(fragments) - 1) :
             LET start == OccurrenceStart(fragments, i)
                 name == SectionAt(fragments, i + 1)
             IN  NextHeader(fragments, start) - start > 1
                    => \E k \in 1..Len(SpansOf(section_spans, name)) :
                          /\ section_spans[name][k][1] <= i
                          /\ i < section_spans[name][k][2]

\* the key rule a description with a ↦ {k: UpdateItem} holds for key k
RuleOfK == migration_def[T("a")].keys[T("k")]

NewKeyOfK == IF RuleOfK.key = None THEN T("k") ELSE RuleOfK.key[1]

\* C2: when the description renames key k of section a and keeps the section,
\* the output holds, for every k=value line under a header a (the last line
\* included), the line as a '#' comment, a newline and new_key=value, before
\* the next Section fragment: the new key is still inside a.
C2_RenamedKeyStaysInSection ==
    (pc = "returned" /\ migration_def \in RenameKeyDescs) =>
        \A n \in KeysUnder(fragments, T("a"), T("k")) :
            \E p \in 1..(Len(result.fragments) - 2) :
                /\ result.fragments[p] = CommentOut(fragments[n])
                /\ result.fragments[p + 1] = newline_fragment
                /\ result.fragments[p + 2] = NewKeyValue(NewKeyOfK, fragments[n].value2)
                /\ SectionAt(result.fragments, p + 2) = T("a")

\* C3: when the description moves key k of section a to another section D,
\* the output holds every k=value line under a header a as a '#' comment, not
\* followed by its replacement, and holds new_key=value under D: after the
\* first emitted Section fragment named D, or under a [D] header appended at
\* the end when no Section fragment named D is emitted before.
C3_MovedKeyReappearsUnderDestination ==
    (pc = "returned" /\ migration_def \in MoveKeyDescs) =>
        \A n \in KeysUnder(fragments, T("a"), T("k")) :
            LET out == result.fragments
                new == NewKeyValue(NewKeyOfK, fragments[n].value2)
            IN  /\ \E p \in 1..Len(out) :
                      /\ out[p] = CommentOut(fragments[n])
                      /\ ~(p + 2 <= Len(out) /\ out[p + 1] = newline_fragment
                           /\ out[p + 2] = new /\ SectionAt(out, p + 2) = T("a"))
                /\ \E q \in 2..Len(out) :
                      /\ out[q] = new
                      /\ SectionAt(out, q) = RuleOfK.section[1]

\* C4: every input fragment appears in the output, in the original order,
\* unchanged or, for a Section or KeyValue fragment only, as a Comment whose
\* text is '#' followed by its text; every other output fragment is one the
\* rewriter builds (a newline, a key=value line, a [section] header).
ImageOf(f, g) ==
    \/ g = f
    \/ f.kind \in {"Section", "KeyValue"} /\ g = CommentOut(f)

Inserted(g) ==
    \/ g = newline_fragment
    \/ g.kind = "KeyValue" /\ g = NewKeyValue(g.value1, g.value2)
    \/ g.kind = "Section" /\ g = NewSection(g.value1)

RECURSIVE Kept(_, _)
Kept(in, out) ==
    IF out = <<>> THEN in = <<>>
    ELSE \/ in # <<>> /\ ImageOf(Head(in), Head(out)) /\ Kept(Tail(in), Tail(out))
         \/ Inserted(Head(out)) /\ Kept(in, Tail(out))

C4_OriginalContentKept ==
    pc = "returned" => Kept(fragments, result.fragments)

\* a removed section: header and key commented out, the newline between left as it is
C4_Witness ==
    /\ pc = "returned"
    /\ result.changed
    /\ \E h \in Positions(fragments, "Section") :
          /\ result.fragments[h] = CommentOut(fragments[h])
          /\ h + 2 <= Len(fragments)
          /\ fragments[h + 1].kind = "NewLine"
          /\ result.fragments[h + 1] = fragments[h + 1]
          /\ fragments[h + 2].kind = "KeyValue"
          /\ result.fragments[h + 2] = CommentOut(fragments[h + 2])

\* C6: changed is true exactly when one of the five action lists is not
\* empty; when it is false the sequence returned is the input; a description
\* that is empty or names only sections or keys absent from the file gives
\* changed = false and the input sequence.
SomeAction(acts) ==
    Len(acts.renamed_sections) + Len(acts.renamed_keys) + Len(acts.moved_keys)
        + Len(acts.removed_sections) + Len(acts.removed_keys) > 0

\* the description's rules name only sections, or keys of a section, that the file lacks
NamesOnlyAbsent(frags, def) ==
    \A section \in DOMAIN def :
        \/ \A h \in Positions(frags, "Section") : frags[h].value1 # section
        \/ /\ def[section].type = "dict"
           /\ \A key \in DOMAIN def[section].keys : KeysUnder(frags, section, key) = {}

C6_ChangedIffSomeAction ==
    pc = "returned" =>
        /\ result.changed <=> SomeAction(actions)
        /\ ~result.changed => result.fragments = fragments
        /\ NamesOnlyAbsent(fragments, migration_def) =>
              ~result.changed /\ result.fragments = fragments

\* the section is in the file, the key the rule names is not
C6_Witness ==
    /\ pc = "returned"
    /\ ~result.changed
    /\ migration_def # EmptyDict
    /\ \E section \in DOMAIN migration_def :
          /\ \E h \in Positions(fragments, "Section") : fragments[h].value1 = section
          /\ Positions(fragments, "KeyValue") # {}

\* C9: no index is registered twice in reinject_fragments during one call of
\* migrate, across the rename-key, remove-section, remove-key, move-key and
\* rename-section steps.
C9_OneRegistrationPerIndex ==
    \A m, n \in 1..Len(registrations) :
        m # n => registrations[m].index # registrations[n].index

\* C10: every key-level action is recorded under the name written in the
\* header that precedes the key in the file, also after a rename step of an
\* ordered list; so the rewriter comments out the key of a section that the
\* same migration renames.
KeyActions(acts) ==
    {<<acts.removed_keys[k][1], acts.removed_keys[k][2]>> : k \in 1..Len(acts.removed_keys)}
    \cup {<<acts.renamed_keys[k][1], acts.renamed_keys[k][2]>> : k \in 1..Len(acts.renamed_keys)}
    \cup {<<acts.moved_keys[k][1], acts.moved_keys[k][2]>> : k \in 1..Len(acts.moved_keys)}

C10_KeyActionsUnderWrittenHeader ==
    /\ pc # "migrate" =>
          \A t \in KeyActions(actions) : KeysUnder(fragments, t[1], t[2]) # {}
    /\ (pc = "returned" /\ migration_def \in StepsDescs) =>
          \A n \in KeysUnder(fragments, T("a"), T("k")) :
              \E p \in 1..Len(result.fragments) :
                  result.fragments[p] = CommentOut(fragments[n])

----------------------------------------------------------------------------
(* Specification SpecParse: parse_configuration, one match of finditer at   *)
(* a time, over every text of at most MaxLen tokens.                        *)

InitParse ==
    /\ content \in SeqsUpTo(Alphabet, MaxLen)
    /\ pos = 1
    /\ parsed = <<>>
    /\ pc = "finditer"
    /\ fragments = <<>>
    /\ migration_def = EmptyDict
    /\ actions = NoActions
    /\ section_spans = EmptyDict
    /\ registrations = <<>>
    /\ added_keys = <<>>
    /\ result = NoResult
    /\ version = <<>> /\ catalog = <<>> /\ todo = <<>> /\ applied = <<>>
    /\ is_changed = FALSE /\ live = None /\ tmp = None /\ saved = None

\* one match of rgx_ini_parser.finditer, mapped by _to_fragment
NextMatch ==
    /\ pc = "finditer"
    /\ pos <= Len(content)
    /\ LET m == MatchAt(content, pos)
       IN  /\ parsed' = parsed \o m.found
           /\ pos' = m.next
    /\ UNCHANGED <<content, pc, fragments, migrateVars, fileVars>>

\* the iterator is exhausted: parse_configuration returns the list
ReturnParsed ==
    /\ pc = "finditer"
    /\ pos > Len(content)
    /\ pc' = "parsed"
    /\ fragments' = parsed
    /\ UNCHANGED <<parseVars, migrateVars, fileVars>>

NextParse == NextMatch \/ ReturnParsed

SpecParse == InitParse /\ [][NextParse]_vars

\* index (from 1) of the first token of each line that is not empty
LineStarts(s) ==
    {p \in 1..Len(s) : s[p] # "\n" /\ (p = 1 \/ s[p - 1] = "\n")}

\* the fragment of the list whose text starts at token p of the input, if any
FragmentsAt(frags, p) ==
    {frags[n] : n \in {m \in 1..Len(frags) : Len(JoinText(SubSeq(frags, 1, m - 1))) = p - 1}}

\* C1: the texts of the fragments produced so far are not empty and make up
\* the input scanned so far, token for token; the list returned makes up the
\* whole input, and a line on which no comment, section or key=value shape
\* matches is one Unknown fragment holding the line.
C1_FragmentsCoverInput ==
    /\ \A n \in 1..Len(parsed) : parsed[n].text # <<>>
    /\ pos <= Len(content) + 1
    /\ JoinText(parsed) = SubSeq(content, 1, pos - 1)
    /\ pc = "parsed" =>
          /\ JoinText(fragments) = content
          /\ \A p \in LineStarts(content) :
                (/\ MatchComment(content, p).end = 0
                 /\ MatchSection(content, p).end = 0
                 /\ MatchKeyValue(content, p).end = 0)
                => FragmentsAt(fragments, p) =
                     {ConfigurationFragment(
                         SubSeq(content, p, LineEnd(content, p) - 1),
                         "Unknown", novalue, novalue)}

\* a line of no known shape between two other lines has been returned
C1_Witness ==
    /\ pc = "parsed"
    /\ Len(fragments) >= 3
    /\ fragments[1].kind \in {"Section", "KeyValue", "Comment"}
    /\ \E n \in 2..Len(fragments) :
          fragments[n].kind = "Unknown" /\ Len(fragments[n].text) >= 2

----------------------------------------------------------------------------
(* RedemptionVersion: (major, minor, build, revision), the revision a       *)
(* string given by the code points of its characters; __lt__ and __le__     *)
(* compare the tuples __part() returns.                                     *)

RedemptionVersion(major, minor, build, revision) == <<major, minor, build, revision>>

RECURSIVE StrLess(_, _)
StrLess(x, y) ==
    IF y = <<>> THEN FALSE
    ELSE IF x = <<>> THEN TRUE
    ELSE IF Head(x) # Head(y) THEN Head(x) < Head(y)
    ELSE StrLess(Tail(x), Tail(y))

\* RedemptionVersion.__lt__
VersionLt(v, w) ==
    \/ v[1] < w[1]
    \/ v[1] = w[1] /\ v[2] < w[2]
    \/ v[1] = w[1] /\ v[2] = w[2] /\ v[3] < w[3]
    \/ v[1] = w[1] /\ v[2] = w[2] /\ v[3] = w[3] /\ StrLess(v[4], w[4])

\* RedemptionVersion.__le__
VersionLe(v, w) == VersionLt(v, w) \/ v = w

----------------------------------------------------------------------------
(* migration_filter *)

\* sorted(migration_defs, key=lambda t: t[0]): a stable sort that compares with <
RECURSIVE SortedByVersion(_)
SortedByVersion(defs) ==
    IF defs = <<>> THEN <<>>
    ELSE LET front == SortedByVersion(SubSeq(defs, 1, Len(defs) - 1))
             t == defs[Len(defs)]
             after == {n \in 1..Len(front) : VersionLt(t[1], front[n][1])}
             at == IF after = {} THEN Len(front) + 1 ELSE Min(after)
         IN  SubSeq(front, 1, at - 1) \o <<t>> \o SubSeq(front, at, Len(front))

\* the loop of migration_filter over a list already in the order it is scanned
FilterFrom(defs, previous_version) ==
    LET newer == {i \in 1..Len(defs) : ~VersionLe(defs[i][1], previous_version)}
    IN  IF newer = {} THEN <<>> ELSE SubSeq(defs, Min(newer), Len(defs))

\* as migration_filter, without the sort of the catalog
migration_filter_unsorted(defs, previous_version) ==
    FilterFrom(defs, previous_version)

migration_filter(defs, previous_version) ==
    FilterFrom(SortedByVersion(defs), previous_version)

----------------------------------------------------------------------------
(* migration_defs, the catalog, lines 357-389 *)

ToSessionProbe(key) == UpdateItem(Some(T("session_probe")), Some(T(key)), None)

migration_defs ==
    << <<RedemptionVersion(9, 1, 39, <<>>),
         T("globals") :> KeyRules(
            T("session_timeout") :> UpdateItem(None, Some(T("base_inactivity_timeout")), None))>>,
       <<RedemptionVersion(9, 1, 71, <<>>),
         (T("rdp") :> KeyRules(
            (T("session_probe_exe_or_file") :> ToSessionProbe("exe_or_file"))
            @@ (T("session_probe_arguments") :> ToSessionProbe("arguments"))
            @@ (T("session_probe_customize_executable_name")
                  :> ToSessionProbe("customize_executable_name"))
            @@ (T("session_probe_allow_multiple_handshake")
                  :> ToSessionProbe("allow_multiple_handshake"))
            @@ (T("session_probe_at_end_of_session_freeze_connection_and_wait")
                  :> ToSessionProbe("at_end_of_session_freeze_connection_and_wait"))
            @@ (T("session_probe_enable_cleaner") :> ToSessionProbe("enable_cleaner"))
            @@ (T("session_probe_clipboard_based_launcher_reset_keyboard_status")
                  :> ToSessionProbe("clipboard_based_launcher_reset_keyboard_status"))
            @@ (T("session_probe_bestsafe_integration")
                  :> ToSessionProbe("enable_bestsafe_interaction"))))
         @@ (T("video") :> KeyRules(
            T("replay_path") :> UpdateItem(Some(T("mod_replay")), None, None)))>>,
       <<RedemptionVersion(9, 1, 76, <<>>),
         T("all_target_mod") :> KeyRules(T("connection_retry_count") :> RemoveItem)>> >>

----------------------------------------------------------------------------
(* Specification SpecFile: migrate_file, statement by statement, with the   *)
(* failures an I/O error or a kill of the process can cause at each one.    *)

Header(name) == <<"[", name, "]", "\n">>

Line(key, value) == <<key, "=", value, "\n">>

\* the configuration files explored
IniFiles ==
    {<<>>,
     <<"#", " ", "x", "\n">> \o Header("other") \o Line("x", "1"),
     Header("globals") \o <<"session_timeout", "=", "30">>,
     Header("globals") \o Line("session_timeout", "30") \o <<"\n">>
        \o Header("video") \o Line("replay_path", "/tmp") \o <<"\n", "\n">>,
     Header("globals") \o Line("session_timeout", "30")
        \o Header("rdp") \o Line("session_probe_exe_or_file", "foo.exe")
        \o Header("all_target_mod") \o Line("connection_retry_count", "3")
        \o <<"\n", "\n">>}

\* the recorded versions explored: 9.1.38, 9.1.39, 9.1.39a, 9.1.50, 9.1.71, 9.1.76, 9.2.0, 10.0.0
RecordedVersions ==
    {RedemptionVersion(9, 1, 38, <<>>), RedemptionVersion(9, 1, 39, <<>>),
     RedemptionVersion(9, 1, 39, <<97>>), RedemptionVersion(9, 1, 50, <<>>),
     RedemptionVersion(9, 1, 71, <<>>), RedemptionVersion(9, 1, 76, <<>>),
     RedemptionVersion(9, 2, 0, <<>>), RedemptionVersion(10, 0, 0, <<>>)}

\* the catalog in every order of its entries
Catalogs ==
    {[i \in 1..Len(migration_defs) |-> migration_defs[f[i]]] :
        f \in {g \in [1..Len(migration_defs) -> 1..Len(migration_defs)] :
                 \A i, j \in 1..Len(migration_defs) : i # j => g[i] # g[j]}}

InitFile ==
    /\ live \in {Some(text) : text \in IniFiles}
    /\ tmp = None
    /\ saved = None
    /\ version \in RecordedVersions
    /\ catalog \in Catalogs
    /\ todo = <<>>
    /\ applied = <<>>
    /\ is_changed = FALSE
    /\ pc = "start"
    /\ content = <<>>
    /\ fragments = <<>>
    /\ pos = 1 /\ parsed = <<>>
    /\ migration_def = EmptyDict
    /\ actions = NoActions
    /\ section_spans = EmptyDict
    /\ registrations = <<>>
    /\ added_keys = <<>>
    /\ result = NoResult

\* lines 397-400: the file is read and parsed, the catalog is filtered
ReadAndParse ==
    /\ pc = "start"
    /\ content' = live[1]
    /\ fragments' = parse_configuration(live[1])
    /\ is_changed' = FALSE
    /\ todo' = migration_filter(catalog, version)
    /\ pc' = "loop"
    /\ UNCHANGED <<pos, parsed, migrateVars, version, catalog, applied, live, tmp, saved>>

\* lines 400-402: one iteration of the loop
ApplyMigration ==
    /\ pc = "loop"
    /\ todo # <<>>
    /\ LET r == migrate(fragments, Head(todo)[2])
       IN  /\ fragments' = r.fragments
           /\ is_changed' = (is_changed \/ r.changed)
           /\ applied' = Append(applied, [version |-> Head(todo)[1],
                                          input |-> fragments,
                                          output |-> r.fragments])
    /\ todo' = Tail(todo)
    /\ UNCHANGED <<pc, parseVars, migrateVars, version, catalog, live, tmp, saved>>

\* lines 404, 412: nothing changed, nothing is written
ReturnUnchanged ==
    /\ pc = "loop"
    /\ todo = <<>>
    /\ ~is_changed
    /\ pc' = "done"
    /\ UNCHANGED <<fragments, parseVars, migrateVars, version, catalog, todo, applied,
                   is_changed, live, tmp, saved>>

FileFrame == <<fragments, parseVars, migrateVars, version, catalog, todo, applied, is_changed>>

\* as WriteTemporary, the text written to ini_filename itself
WriteInPlace ==
    /\ pc = "loop"
    /\ todo = <<>>
    /\ is_changed
    /\ live' = Some(JoinText(fragments))
    /\ pc' = "copy"
    /\ UNCHANGED <<FileFrame, tmp, saved>>

\* lines 404-406: the new text is written to temporary_ini_filename
WriteTemporary ==
    /\ pc = "loop"
    /\ todo = <<>>
    /\ is_changed
    /\ tmp' = Some(JoinText(fragments))
    /\ pc' = "copy"
    /\ UNCHANGED <<FileFrame, live, saved>>

\* lines 405-406 interrupted: the temporary file holds a part of the text
WriteTemporaryCut ==
    /\ pc = "loop"
    /\ todo = <<>>
    /\ is_changed
    /\ \E n \in 0..Len(JoinText(fragments)) :
          tmp' = Some(SubSeq(JoinText(fragments), 1, n))
    /\ pc' = "failed"
    /\ UNCHANGED <<FileFrame, live, saved>>

\* line 408: copyfile(ini_filename, saved_ini_filename)
CopyBackup ==
    /\ pc = "copy"
    /\ saved' = live
    /\ pc' = "rename"
    /\ UNCHANGED <<FileFrame, live, tmp>>

\* line 408 interrupted: the backup holds a part of the file
CopyBackupCut ==
    /\ pc = "copy"
    /\ \E n \in 0..Len(live[1]) : saved' = Some(SubSeq(live[1], 1, n))
    /\ pc' = "failed"
    /\ UNCHANGED <<FileFrame, live, tmp>>

\* line 410: os.rename(temporary_ini_filename, ini_filename)
Rename ==
    /\ pc = "rename"
    /\ live' = tmp
    /\ tmp' = None
    /\ pc' = "done"
    /\ UNCHANGED <<FileFrame, saved>>

\* an exception or a kill between two statements: no file is touched
Fail ==
    /\ pc \in {"start", "loop", "copy", "rename"}
    /\ pc' = "failed"
    /\ UNCHANGED <<FileFrame, live, tmp, saved>>

NextFile ==
    \/ ReadAndParse
    \/ ApplyMigration
    \/ ReturnUnchanged
    \/ WriteTemporary
    \/ WriteTemporaryCut
    \/ CopyBackup
    \/ CopyBackupCut
    \/ Rename
    \/ Fail

SpecFile == InitFile /\ [][NextFile]_vars

----------------------------------------------------------------------------
(* Properties of migrate_file (specification SpecFile) *)

VersionsOf(entries) == [k \in 1..Len(entries) |-> entries[k][1]]

AppliedVersions == [k \in 1..Len(applied) |-> applied[k].version]

\* the versions of the catalog greater than the recorded one, in ascending order
NewerVersions ==
    LET newer == {catalog[i][1] : i \in {j \in 1..Len(catalog) :
                                           VersionLt(version, catalog[j][1])}}
    IN  CHOOSE seq \in [1..Cardinality(newer) -> newer] :
            \A i, j \in 1..Cardinality(newer) : i < j => VersionLt(seq[i], seq[j])

\* C5: the migrations applied, followed by those still to apply, are the
\* catalog entries whose version is greater than the recorded one, in
\* ascending order, whatever the order of the catalog; the first takes the
\* parsed file and each next one the sequence the previous one returned; with
\* recorded version 9.1.50, 9.1.71 is applied and then 9.1.76.
C5_NewerMigrationsInOrder ==
    /\ pc \in {"loop", "copy", "rename", "done"} =>
          /\ AppliedVersions \o VersionsOf(todo) = NewerVersions
          /\ \A k \in 1..Len(AppliedVersions) :
                ~VersionLe(AppliedVersions[k], version)
    /\ \A k \in 1..Len(applied) :
          applied[k].input = IF k = 1 THEN parse_configuration(content)
                             ELSE applied[k - 1].output
    /\ applied # <<>> => fragments = applied[Len(applied)].output
    /\ (pc = "done" /\ version = RedemptionVersion(9, 1, 50, <<>>)) =>
          AppliedVersions = <<RedemptionVersion(9, 1, 71, <<>>),
                              RedemptionVersion(9, 1, 76, <<>>)>>

\* a catalog listed newest first, a file recorded at 9.1.50: two migrations
\* ran and the second one worked on what the first one had rewritten
C5_Witness ==
    /\ pc = "done"
    /\ version = RedemptionVersion(9, 1, 50, <<>>)
    /\ catalog[1][1] = RedemptionVersion(9, 1, 76, <<>>)
    /\ Len(applied) = 2
    /\ applied[1].output # applied[1].input
    /\ applied[2].output # applied[2].input

\* C7: the live file holds its whole original text or the whole migrated
\* text in every state, a failure after any step included; it changes only by
\* the rename, which runs after the backup of the original is complete; no
\* temporary file, backup or rename is produced when no migration reported a
\* change.
C7_LiveFileWholeOrOriginal ==
    /\ [](\/ pc \in {"start", "failed"} /\ content = <<>> /\ applied = <<>>
          \/ live = Some(content)
          \/ is_changed /\ pc = "done" /\ live = Some(JoinText(fragments)))
    /\ [][live' # live =>
             /\ pc = "rename"
             /\ is_changed
             /\ todo = <<>>
             /\ saved = live
             /\ live' = Some(JoinText(fragments))]_vars
    /\ [](~is_changed => tmp = None /\ saved = None)

\* the process stopped while the backup was being copied: the temporary file
\* is complete, the backup is partial, the live file is the original
C7_Witness ==
    /\ pc = "failed"
    /\ tmp = Some(JoinText(fragments))
    /\ saved # None
    /\ saved # live
    /\ live = Some(content)
    /\ JoinText(fragments) # content

====
